---- MODULE Spec2Model ----
(***************************************************************************)
(* A model of the Base64 codec of src/lib/index.mjs.                       *)
(*                                                                         *)
(* Representation.  A JavaScript string is the sequence of its UTF-16 code *)
(* units and a Uint8Array is the sequence of its bytes, both as sequences  *)
(* of naturals.  JavaScript indexes from 0 and TLA+ from 1: At(s, i) reads *)
(* the element of JavaScript index i.  An optional argument (start, end)   *)
(* is <<>> when omitted (undefined) and <<n>> when given.  A lookup that   *)
(* yields undefined in the code yields Undefined here.  An integer (Number *)
(* or BigInt) is a record [neg, mag], mag being the magnitude written in   *)
(* radix 1000, most significant limb first, without leading zero limbs     *)
(* (<<>> is zero): TLC's integers are 32 bits wide and the numerals of the *)
(* program reach 2^53 and beyond.  The outcome of a call is a record       *)
(* [kind, val, index]: kind is "ok" or the name of the error thrown, val   *)
(* the value returned, index the position an error message reports.        *)
(***************************************************************************)
EXTENDS Integers, Sequences, FiniteSets, TLC

BASE == 64

PADDING_CHAR == 61

NEGATIVE_CHAR == 45

Undefined == 0 - 1

\* 'ABCDEFGHIJKLMNOPQRSTUVWXYZabcdefghijklmnopqrstuvwxyz0123456789+/'
ALPHABET ==
  << 65, 66, 67, 68, 69, 70, 71, 72, 73, 74, 75, 76, 77,
     78, 79, 80, 81, 82, 83, 84, 85, 86, 87, 88, 89, 90,
     97, 98, 99, 100, 101, 102, 103, 104, 105, 106, 107, 108, 109,
     110, 111, 112, 113, 114, 115, 116, 117, 118, 119, 120, 121, 122,
     48, 49, 50, 51, 52, 53, 54, 55, 56, 57, 43, 47 >>

At(s, i) == s[i + 1]

Get(map, key) == IF key \in DOMAIN map THEN map[key] ELSE Undefined

MathMax(a, b) == IF a > b THEN a ELSE b

MathMin(a, b) == IF a < b THEN a ELSE b

Ok(v) == [kind |-> "ok", val |-> v, index |-> Undefined]

Throw(k, i) == [kind |-> k, val |-> <<>>, index |-> i]

(***************************************************************************)
(* Alphabet table                                                          *)
(***************************************************************************)

\* The last index at which a key occurs: the loop assigns in ascending order
\* of i, so a later assignment overwrites an earlier one.
LastIndexOf(s, key) ==
  CHOOSE i \in 0..(Len(s) - 1) :
    /\ At(s, i) = key
    /\ \A j \in (i + 1)..(Len(s) - 1) : At(s, j) # key

\* lookup and baseMapLookup are keyed by the character and by its code unit,
\* which are one value here; baseMap is a Uint8Array and keeps the low byte.
createAlphabetLookups(alphabet) ==
  LET chars == {alphabet[i] : i \in 1..BASE}
  IN [ lookup        |-> [c \in chars |-> LastIndexOf(alphabet, c)],
       baseMap       |-> [i \in 1..BASE |-> alphabet[i] % 256],
       baseMapLookup |-> [c \in chars |-> LastIndexOf(alphabet, c)] ]

\* Base64 with the byte table of the standard alphabet in every instance.
Base64OfStandardBaseMap(alphabet) ==
  LET lookups == createAlphabetLookups(alphabet)
  IN [ alphabet       |-> alphabet,
       alphabetLookup |-> lookups.lookup,
       baseMap        |-> createAlphabetLookups(ALPHABET).baseMap,
       baseMapLookup  |-> lookups.baseMapLookup ]

\* new Base64(alphabet) for an alphabet toAlphabet has returned.
Base64(alphabet) ==
  LET lookups == createAlphabetLookups(alphabet)
  IN [ alphabet       |-> alphabet,
       alphabetLookup |-> lookups.lookup,
       baseMap        |-> lookups.baseMap,
       baseMapLookup  |-> lookups.baseMapLookup ]

\* The module-level default instance.
base64 == Base64(ALPHABET)

\* The first index of value that toAlphabet rejects, or Undefined.
RECURSIVE AlphabetScan(_, _)
AlphabetScan(value, i) ==
  IF i >= BASE THEN [kind |-> "ok", index |-> Undefined]
  ELSE IF Get(base64.alphabetLookup, At(value, i)) = Undefined
       THEN [kind |-> "invalid", index |-> i]
  ELSE IF \E j \in 0..(i - 1) : At(value, j) = At(value, i)
       THEN [kind |-> "duplicate", index |-> i]
  ELSE AlphabetScan(value, i + 1)

\* value is <<>> when the argument is omitted and <<string>> otherwise.
toAlphabet(value) ==
  IF value = <<>> THEN Ok(ALPHABET)
  ELSE IF Len(value[1]) # BASE THEN Throw("RangeError", Undefined)
  ELSE LET scan == AlphabetScan(value[1], 0)
       IN IF scan.kind = "ok" THEN Ok(value[1])
          ELSE Throw("SyntaxError", scan.index)

\* isAlphabet without the test that no character is repeated.
RECURSIVE IsAlphabetScanOfSymbols(_, _)
IsAlphabetScanOfSymbols(value, i) ==
  IF i >= BASE THEN TRUE
  ELSE IF Get(base64.alphabetLookup, At(value, i)) = Undefined THEN FALSE
  ELSE IsAlphabetScanOfSymbols(value, i + 1)

\* The for loop of isAlphabet: uniqueCharsLookup holds the characters at the
\* indexes below i.
RECURSIVE IsAlphabetScan(_, _)
IsAlphabetScan(value, i) ==
  IF i >= BASE THEN TRUE
  ELSE IF \/ Get(base64.alphabetLookup, At(value, i)) = Undefined
          \/ \E j \in 0..(i - 1) : At(value, j) = At(value, i)
       THEN FALSE
  ELSE IsAlphabetScan(value, i + 1)

\* isAlphabet(value) for a string value.
isAlphabet(value) ==
  IF Len(value) # BASE THEN FALSE ELSE IsAlphabetScan(value, 0)

\* The trailing padding markers isBase64String counts.
RECURSIVE IsBase64StringPadding(_, _, _, _)
IsBase64StringPadding(value, lastIndex, length, paddingCount) ==
  IF /\ paddingCount < length
     /\ paddingCount < 2
     /\ At(value, lastIndex - paddingCount) = PADDING_CHAR
  THEN IsBase64StringPadding(value, lastIndex, length, paddingCount + 1)
  ELSE paddingCount

\* The for loop of isBase64String, which looks the characters up in the
\* table of the default instance.
RECURSIVE IsBase64StringScan(_, _, _)
IsBase64StringScan(value, i, validLength) ==
  IF i >= validLength THEN TRUE
  ELSE IF Get(base64.alphabetLookup, At(value, i)) = Undefined THEN FALSE
  ELSE IsBase64StringScan(value, i + 1, validLength)

\* isBase64String without the test of the length.
isBase64StringOfAnyLength(value) ==
  LET length       == Len(value)
      paddingCount == IsBase64StringPadding(value, length - 1, length, 0)
  IN IsBase64StringScan(value, 0, length - paddingCount)

\* isBase64String(value) for a string value.
isBase64String(value) ==
  LET length == Len(value)
  IN IF length % 4 # 0 THEN FALSE
     ELSE LET paddingCount == IsBase64StringPadding(value, length - 1, length, 0)
          IN IsBase64StringScan(value, 0, length - paddingCount)

(***************************************************************************)
(* Buffer codec                                                            *)
(***************************************************************************)

\* start < 0 ? MathMax(0, length + start) : MathMin(start, length), and the
\* default when the argument is undefined.  The four transforms compute
\* startIndex and endIndex with the same text.
RangeIndex(arg, length, default) ==
  IF arg = <<>> THEN default
  ELSE IF arg[1] < 0 THEN MathMax(0, length + arg[1])
  ELSE MathMin(arg[1], length)

\* a + b in 32 bits, two's complement, for a and b of 32 bits.
Int32Add(a, b) ==
  IF a > 0 /\ b > 0 /\ a > 2147483647 - b
  THEN ((a - 1073741824) - 1073741824) + ((b - 1073741824) - 1073741824)
  ELSE IF a < 0 /\ b < 0 /\ a < ((0 - 2147483647) - 1) - b
  THEN ((a + 1073741824) + 1073741824) + ((b + 1073741824) + 1073741824)
  ELSE a + b

\* n << 2: the shift is made on 32 bits and wraps.
ShiftLeft2(n) == LET twice == Int32Add(n, n) IN Int32Add(twice, twice)

\* n * 3 >> 2: the product is exact, the shift takes it to 32 bits and
\* keeps the sign.
DecodeResultLength(n) == Int32Add(Int32Add(n, n), n) \div 4

\* new Uint8Array(size) after the writes result[0], result[1], ... of the
\* elements of written: elements never written stay 0, writes past the end
\* are dropped.
TypedArrayOf(size, written) ==
  [i \in 1..size |-> IF i <= Len(written) THEN written[i] % 256 ELSE 0]

\* The while loop of encodeToString over the full 3-byte groups.
RECURSIVE EncodeToStringLoop(_, _, _, _, _)
EncodeToStringLoop(alphabet, input, index, extraLength, result) ==
  IF index < extraLength
  THEN LET number == At(input, index) * 65536 + At(input, index + 1) * 256
                       + At(input, index + 2)
       IN EncodeToStringLoop(alphabet, input, index + 3, extraLength,
            result \o << At(alphabet, (number \div 262144) % 64),
                         At(alphabet, (number \div 4096) % 64),
                         At(alphabet, (number \div 64) % 64),
                         At(alphabet, number % 64) >>)
  ELSE [result |-> result, index |-> index]

\* EncodeToStringExtra repeating the padding marker extraBytes times, not
\* 3 - extraBytes times.
EncodeToStringExtraPadding(alphabet, input, index, extraBytes) ==
  IF extraBytes = 1
  THEN LET number == At(input, index)
       IN << At(alphabet, number \div 4),
             At(alphabet, (number * 16) % 64),
             PADDING_CHAR >>
  ELSE IF extraBytes = 2
  THEN LET number == At(input, index) * 256 + At(input, index + 1)
       IN << At(alphabet, number \div 1024),
             At(alphabet, (number \div 16) % 64),
             At(alphabet, (number * 4) % 64),
             PADDING_CHAR, PADDING_CHAR >>
  ELSE <<>>

\* The remainder of 1 or 2 bytes and the padding of encodeToString.
EncodeToStringExtra(alphabet, input, index, extraBytes) ==
  IF extraBytes = 1
  THEN LET number == At(input, index)
       IN << At(alphabet, number \div 4),
             At(alphabet, (number * 16) % 64),
             PADDING_CHAR, PADDING_CHAR >>
  ELSE IF extraBytes = 2
  THEN LET number == At(input, index) * 256 + At(input, index + 1)
       IN << At(alphabet, number \div 1024),
             At(alphabet, (number \div 16) % 64),
             At(alphabet, (number * 4) % 64),
             PADDING_CHAR >>
  ELSE <<>>

encodeToString(b64, input, start, end) ==
  LET alphabet    == b64.alphabet
      length      == Len(input)
      startIndex  == RangeIndex(start, length, 0)
      endIndex    == RangeIndex(end, length, length)
      newLength   == MathMax(0, endIndex - startIndex)
      extraBytes  == newLength % 3
      extraLength == endIndex - extraBytes
      loop        == EncodeToStringLoop(alphabet, input, startIndex, extraLength, <<>>)
  IN Ok(loop.result \o EncodeToStringExtra(alphabet, input, loop.index, extraBytes))

\* The while loop of encode over the full 3-byte groups.
RECURSIVE EncodeLoop(_, _, _, _, _)
EncodeLoop(baseMap, input, index, extraLength, written) ==
  IF index < extraLength
  THEN LET number == At(input, index) * 65536 + At(input, index + 1) * 256
                       + At(input, index + 2)
       IN EncodeLoop(baseMap, input, index + 3, extraLength,
            written \o << At(baseMap, (number \div 262144) % 64),
                          At(baseMap, (number \div 4096) % 64),
                          At(baseMap, (number \div 64) % 64),
                          At(baseMap, number % 64) >>)
  ELSE [result |-> written, index |-> index]

\* The remainder of 1 or 2 bytes of encode.
EncodeExtra(baseMap, input, index, extraBytes) ==
  IF extraBytes = 1
  THEN LET number == At(input, index)
       IN << At(baseMap, number \div 4),
             At(baseMap, (number * 16) % 64) >>
  ELSE IF extraBytes = 2
  THEN LET number == At(input, index) * 256 + At(input, index + 1)
       IN << At(baseMap, number \div 1024),
             At(baseMap, (number \div 16) % 64),
             At(baseMap, (number * 4) % 64) >>
  ELSE <<>>

\* new Uint8Array((newLength << 2 | 2) / 3): the length is truncated.
\* (newLength << 2 | 2) / 3 as new Uint8Array takes it: the shift leaves the
\* two low bits clear, the quotient is cut towards zero, and a length below
\* zero is refused.
EncodeResultLength(newLength) ==
  LET number == ShiftLeft2(newLength) + 2
  IN IF number >= 0 THEN number \div 3 ELSE 0 - ((0 - number) \div 3)

encode(b64, input, start, end) ==
  LET baseMap     == b64.baseMap
      length      == Len(input)
      startIndex  == RangeIndex(start, length, 0)
      endIndex    == RangeIndex(end, length, length)
      newLength   == MathMax(0, endIndex - startIndex)
      extraBytes  == newLength % 3
      extraLength == endIndex - extraBytes
      loop        == EncodeLoop(baseMap, input, startIndex, extraLength, <<>>)
  IN IF EncodeResultLength(newLength) < 0 THEN Throw("RangeError", Undefined)
     ELSE Ok(TypedArrayOf(EncodeResultLength(newLength),
               loop.result \o EncodeExtra(baseMap, input, loop.index, extraBytes)))

\* PaddingCount counting at most one padding marker.
RECURSIVE PaddingCountOne(_, _, _, _)
PaddingCountOne(string, lastIndex, newLength, paddingCount) ==
  IF /\ paddingCount < newLength
     /\ paddingCount < 1
     /\ At(string, lastIndex - paddingCount) = PADDING_CHAR
  THEN PaddingCountOne(string, lastIndex, newLength, paddingCount + 1)
  ELSE paddingCount

\* PaddingCount counting up to three padding markers.
RECURSIVE PaddingCountThree(_, _, _, _)
PaddingCountThree(string, lastIndex, newLength, paddingCount) ==
  IF /\ paddingCount < newLength
     /\ paddingCount < 3
     /\ At(string, lastIndex - paddingCount) = PADDING_CHAR
  THEN PaddingCountThree(string, lastIndex, newLength, paddingCount + 1)
  ELSE paddingCount

\* The trailing padding markers decodeFromString counts, from the last
\* position of the selected range backwards.
RECURSIVE PaddingCount(_, _, _, _)
PaddingCount(string, lastIndex, newLength, paddingCount) ==
  IF /\ paddingCount < newLength
     /\ paddingCount < 2
     /\ At(string, lastIndex - paddingCount) = PADDING_CHAR
  THEN PaddingCount(string, lastIndex, newLength, paddingCount + 1)
  ELSE paddingCount

\* The while loop of decodeFromString over the full 4-symbol groups: the
\* four lookups are made, and fail, in order.
RECURSIVE DecodeFromStringLoop(_, _, _, _, _)
DecodeFromStringLoop(alphabetLookup, string, index, extraLength, written) ==
  IF index < extraLength
  THEN LET charIndex  == Get(alphabetLookup, At(string, index))
           charIndex2 == Get(alphabetLookup, At(string, index + 1))
           charIndex3 == Get(alphabetLookup, At(string, index + 2))
           charIndex4 == Get(alphabetLookup, At(string, index + 3))
           number     == charIndex * 262144 + charIndex2 * 4096
                           + charIndex3 * 64 + charIndex4
       IN IF charIndex = Undefined THEN Throw("SyntaxError", index)
          ELSE IF charIndex2 = Undefined THEN Throw("SyntaxError", index + 1)
          ELSE IF charIndex3 = Undefined THEN Throw("SyntaxError", index + 2)
          ELSE IF charIndex4 = Undefined THEN Throw("SyntaxError", index + 3)
          ELSE DecodeFromStringLoop(alphabetLookup, string, index + 4, extraLength,
                 written \o << (number \div 65536) % 256,
                               (number \div 256) % 256,
                               number % 256 >>)
  ELSE [kind |-> "ok", val |-> written, index |-> index]

\* The final partial group of 1, 2 or 3 symbols of decodeFromString.
DecodeFromStringExtra(alphabetLookup, string, index, extraBytes) ==
  IF extraBytes = 1
  THEN LET charIndex == Get(alphabetLookup, At(string, index))
       IN IF charIndex = Undefined THEN Throw("SyntaxError", index)
          ELSE Ok(<<>>)
  ELSE IF extraBytes = 2
  THEN LET charIndex  == Get(alphabetLookup, At(string, index))
           charIndex2 == Get(alphabetLookup, At(string, index + 1))
           number     == charIndex * 4 + (charIndex2 \div 16)
       IN IF charIndex = Undefined THEN Throw("SyntaxError", index)
          ELSE IF charIndex2 = Undefined THEN Throw("SyntaxError", index + 1)
          ELSE Ok(<< number % 256 >>)
  ELSE IF extraBytes = 3
  THEN LET charIndex  == Get(alphabetLookup, At(string, index))
           charIndex2 == Get(alphabetLookup, At(string, index + 1))
           charIndex3 == Get(alphabetLookup, At(string, index + 2))
           number     == charIndex * 1024 + charIndex2 * 16 + (charIndex3 \div 4)
       IN IF charIndex = Undefined THEN Throw("SyntaxError", index)
          ELSE IF charIndex2 = Undefined THEN Throw("SyntaxError", index + 1)
          ELSE IF charIndex3 = Undefined THEN Throw("SyntaxError", index + 2)
          ELSE Ok(<< (number \div 256) % 256, number % 256 >>)
  ELSE Ok(<<>>)

\* decodeFromString counting the padding markers from the last position of
\* the string, not of the selected range.
decodeFromStringPaddingOfString(b64, string, start, end) ==
  LET alphabetLookup == b64.alphabetLookup
      length       == Len(string)
      startIndex   == RangeIndex(start, length, 0)
      endIndex     == RangeIndex(end, length, length)
      newLength    == MathMax(0, endIndex - startIndex)
      paddingCount == IF newLength % 4 = 0
                      THEN PaddingCount(string, length - 1, newLength, 0)
                      ELSE 0
      validLength  == newLength - paddingCount
      extraBytes   == validLength % 4
      extraLength  == startIndex + validLength - extraBytes
      loop         == DecodeFromStringLoop(alphabetLookup, string, startIndex,
                                           extraLength, <<>>)
      extra        == DecodeFromStringExtra(alphabetLookup, string, loop.index,
                                            extraBytes)
  IN IF DecodeResultLength(validLength) < 0 THEN Throw("RangeError", Undefined)
     ELSE IF loop.kind # "ok" THEN loop
     ELSE IF extra.kind # "ok" THEN extra
     ELSE Ok(TypedArrayOf(DecodeResultLength(validLength), loop.val \o extra.val))

decodeFromString(b64, string, start, end) ==
  LET alphabetLookup == b64.alphabetLookup
      length       == Len(string)
      startIndex   == RangeIndex(start, length, 0)
      endIndex     == RangeIndex(end, length, length)
      newLength    == MathMax(0, endIndex - startIndex)
      paddingCount == IF newLength % 4 = 0
                      THEN PaddingCount(string, endIndex - 1, newLength, 0)
                      ELSE 0
      validLength  == newLength - paddingCount
      extraBytes   == validLength % 4
      extraLength  == startIndex + validLength - extraBytes
      loop         == DecodeFromStringLoop(alphabetLookup, string, startIndex,
                                           extraLength, <<>>)
      extra        == DecodeFromStringExtra(alphabetLookup, string, loop.index,
                                            extraBytes)
  IN IF DecodeResultLength(validLength) < 0 THEN Throw("RangeError", Undefined)
     ELSE IF loop.kind # "ok" THEN loop
     ELSE IF extra.kind # "ok" THEN extra
     ELSE Ok(TypedArrayOf(DecodeResultLength(validLength), loop.val \o extra.val))

\* The while loop of decode over the full 4-byte groups.
RECURSIVE DecodeLoop(_, _, _, _, _)
DecodeLoop(baseMapLookup, input, index, extraLength, written) ==
  IF index < extraLength
  THEN LET charIndex  == Get(baseMapLookup, At(input, index))
           charIndex2 == Get(baseMapLookup, At(input, index + 1))
           charIndex3 == Get(baseMapLookup, At(input, index + 2))
           charIndex4 == Get(baseMapLookup, At(input, index + 3))
           number     == charIndex * 262144 + charIndex2 * 4096
                           + charIndex3 * 64 + charIndex4
       IN IF charIndex = Undefined THEN Throw("SyntaxError", index)
          ELSE IF charIndex2 = Undefined THEN Throw("SyntaxError", index + 1)
          ELSE IF charIndex3 = Undefined THEN Throw("SyntaxError", index + 2)
          ELSE IF charIndex4 = Undefined THEN Throw("SyntaxError", index + 3)
          ELSE DecodeLoop(baseMapLookup, input, index + 4, extraLength,
                 written \o << (number \div 65536) % 256,
                               (number \div 256) % 256,
                               number % 256 >>)
  ELSE [kind |-> "ok", val |-> written, index |-> index]

\* The final partial group of 1, 2 or 3 bytes of decode.
DecodeExtra(baseMapLookup, input, index, extraBytes) ==
  IF extraBytes = 1
  THEN LET charIndex == Get(baseMapLookup, At(input, index))
       IN IF charIndex = Undefined THEN Throw("SyntaxError", index)
          ELSE Ok(<<>>)
  ELSE IF extraBytes = 2
  THEN LET charIndex  == Get(baseMapLookup, At(input, index))
           charIndex2 == Get(baseMapLookup, At(input, index + 1))
           number     == charIndex * 4 + (charIndex2 \div 16)
       IN IF charIndex = Undefined THEN Throw("SyntaxError", index)
          ELSE IF charIndex2 = Undefined THEN Throw("SyntaxError", index + 1)
          ELSE Ok(<< number % 256 >>)
  ELSE IF extraBytes = 3
  THEN LET charIndex  == Get(baseMapLookup, At(input, index))
           charIndex2 == Get(baseMapLookup, At(input, index + 1))
           charIndex3 == Get(baseMapLookup, At(input, index + 2))
           number     == charIndex * 1024 + charIndex2 * 16 + (charIndex3 \div 4)
       IN IF charIndex = Undefined THEN Throw("SyntaxError", index)
          ELSE IF charIndex2 = Undefined THEN Throw("SyntaxError", index + 1)
          ELSE IF charIndex3 = Undefined THEN Throw("SyntaxError", index + 2)
          ELSE Ok(<< (number \div 256) % 256, number % 256 >>)
  ELSE Ok(<<>>)

\* decode looks every byte of the selected range up in baseMapLookup: it
\* has no count of padding markers.
decode(b64, input, start, end) ==
  LET baseMapLookup == b64.baseMapLookup
      length      == Len(input)
      startIndex  == RangeIndex(start, length, 0)
      endIndex    == RangeIndex(end, length, length)
      newLength   == MathMax(0, endIndex - startIndex)
      extraBytes  == newLength % 4
      extraLength == endIndex - extraBytes
      loop        == DecodeLoop(baseMapLookup, input, startIndex, extraLength, <<>>)
      extra       == DecodeExtra(baseMapLookup, input, loop.index, extraBytes)
  IN IF DecodeResultLength(newLength) < 0 THEN Throw("RangeError", Undefined)
     ELSE IF loop.kind # "ok" THEN loop
     ELSE IF extra.kind # "ok" THEN extra
     ELSE Ok(TypedArrayOf(DecodeResultLength(newLength), loop.val \o extra.val))

\* The length of the range that start and end select of an input of length
\* elements.
SelectedLength(length, start, end) ==
  MathMax(0, RangeIndex(end, length, length) - RangeIndex(start, length, 0))

\* encode of an input of length bytes of which the model holds no byte, for
\* the lengths at which no byte decides the outcome: the array is refused,
\* or it has no element and every write to it is dropped.
encodeOfLength(length, start, end) ==
  LET size == EncodeResultLength(SelectedLength(length, start, end))
  IN IF size < 0 THEN Throw("RangeError", Undefined)
     ELSE Ok(TypedArrayOf(size, <<>>))

\* decode of an input of length bytes of which the model holds no byte, for
\* the lengths at which the array is refused before a byte is looked up.
decodeOfLength(length, start, end) ==
  LET size == DecodeResultLength(SelectedLength(length, start, end))
  IN IF size < 0 THEN Throw("RangeError", Undefined)
     ELSE Ok(TypedArrayOf(size, <<>>))

(***************************************************************************)
(* Numeral codec                                                           *)
(***************************************************************************)

\* Arithmetic of Number and BigInt on magnitudes in radix 1000.

RECURSIVE StripZeros(_)
StripZeros(mag) ==
  IF mag # <<>> /\ mag[1] = 0 THEN StripZeros(Tail(mag)) ELSE mag

\* a < b on magnitudes.
RECURSIVE MagLess(_, _)
MagLess(a, b) ==
  IF Len(a) # Len(b) THEN Len(a) < Len(b)
  ELSE IF a = <<>> THEN FALSE
  ELSE IF a[1] # b[1] THEN a[1] < b[1]
  ELSE MagLess(Tail(a), Tail(b))

\* a < b on integers.
NumLess(a, b) ==
  IF a.neg /\ ~b.neg THEN TRUE
  ELSE IF ~a.neg /\ b.neg THEN FALSE
  ELSE IF a.neg THEN MagLess(b.mag, a.mag)
  ELSE MagLess(a.mag, b.mag)

\* -a: an integer has no negative zero.
Negate(a) == [neg |-> ~a.neg /\ a.mag # <<>>, mag |-> a.mag]

\* mag % d and the integer quotient of mag by d, for 0 < d <= BASE: long
\* division from the most significant limb.
RECURSIVE DivModLimbs(_, _, _, _, _)
DivModLimbs(mag, d, i, rem, quot) ==
  IF i > Len(mag) THEN [quot |-> StripZeros(quot), rem |-> rem]
  ELSE LET cur == rem * 1000 + mag[i]
       IN DivModLimbs(mag, d, i + 1, cur % d, Append(quot, cur \div d))

DivMod(mag, d) == DivModLimbs(mag, d, 1, 0, <<>>)

\* mag * m + a, for 0 <= a <= BASE and 0 < m <= BASE: from the least
\* significant limb.
RECURSIVE MulAddLimbs(_, _, _, _, _)
MulAddLimbs(mag, m, i, carry, acc) ==
  IF i = 0 THEN StripZeros(<<carry>> \o acc)
  ELSE LET cur == mag[i] * m + carry
       IN MulAddLimbs(mag, m, i - 1, cur \div 1000, <<cur % 1000>> \o acc)

MulAdd(mag, m, a) == MulAddLimbs(mag, m, Len(mag), a, <<>>)

\* q * 2^k
RECURSIVE TimesPow2(_, _)
TimesPow2(q, k) == IF k = 0 THEN q ELSE TimesPow2(MulAdd(q, 2, 0), k - 1)

\* The Number nearest to an integer below 2^1024 (above, the Number is
\* Infinity, which no numeral given here reaches), ties to the even
\* significand: mag is
\* halved until it is below 2^53, guard being the last bit dropped, sticky
\* whether a bit dropped before it was set and shift the count of halvings.
RECURSIVE RoundToNumber(_, _, _, _)
RoundToNumber(mag, guard, sticky, shift) ==
  IF MagLess(mag, <<9, 7, 199, 254, 740, 992>>)
  THEN LET up == guard = 1 /\ (sticky \/ mag[Len(mag)] % 2 = 1)
       IN TimesPow2(IF up THEN MulAdd(mag, 1, 1) ELSE mag, shift)
  ELSE LET dm == DivMod(mag, 2)
       IN RoundToNumber(dm.quot, dm.rem, sticky \/ guard = 1, shift + 1)

\* result * BASE + index on Numbers: the product of a Number by 64 is exact
\* and the sum is rounded.
NumberMulAdd(result, m, index) == RoundToNumber(MulAdd(result, m, index), 0, FALSE, 0)

\* Number.MAX_SAFE_INTEGER, 9007199254740991, and Number.MIN_SAFE_INTEGER.
NumberMAX_SAFE_INTEGER == [neg |-> FALSE, mag |-> <<9, 7, 199, 254, 740, 991>>]

NumberMIN_SAFE_INTEGER == [neg |-> TRUE, mag |-> <<9, 7, 199, 254, 740, 991>>]

\* EncodeIntLoop dividing by BASE - 1.
RECURSIVE EncodeIntLoopBase63(_, _, _)
EncodeIntLoopBase63(alphabet, number, result) ==
  IF number # <<>>
  THEN LET dm == DivMod(number, BASE - 1)
       IN EncodeIntLoopBase63(alphabet, dm.quot, <<At(alphabet, dm.rem)>> \o result)
  ELSE result

\* The while loop of encodeInt: the digits of a non-zero magnitude, the
\* least significant first, each prepended to the result.
RECURSIVE EncodeIntLoop(_, _, _)
EncodeIntLoop(alphabet, number, result) ==
  IF number # <<>>
  THEN LET dm == DivMod(number, BASE)
       IN EncodeIntLoop(alphabet, dm.quot, <<At(alphabet, dm.rem)>> \o result)
  ELSE result

\* encodeInt refusing the two safe bounds themselves.
encodeIntExclusive(b64, value) ==
  LET alphabet == b64.alphabet
  IN IF ~NumLess(NumberMIN_SAFE_INTEGER, value) THEN Throw("RangeError", Undefined)
     ELSE IF ~NumLess(value, NumberMAX_SAFE_INTEGER) THEN Throw("RangeError", Undefined)
     ELSE IF value.mag = <<>> THEN Ok(<<At(alphabet, 0)>>)
     ELSE LET result == EncodeIntLoop(alphabet, value.mag, <<>>)
          IN Ok(IF value.neg THEN <<NEGATIVE_CHAR>> \o result ELSE result)

encodeInt(b64, value) ==
  LET alphabet == b64.alphabet
  IN IF NumLess(value, NumberMIN_SAFE_INTEGER) THEN Throw("RangeError", Undefined)
     ELSE IF NumLess(NumberMAX_SAFE_INTEGER, value) THEN Throw("RangeError", Undefined)
     ELSE IF value.mag = <<>> THEN Ok(<<At(alphabet, 0)>>)
     ELSE LET result == EncodeIntLoop(alphabet, value.mag, <<>>)
          IN Ok(IF value.neg THEN <<NEGATIVE_CHAR>> \o result ELSE result)

\* The for loop of decodeInt: result is a Number, exact up to 2^53 and
\* rounded above.
RECURSIVE DecodeIntLoop(_, _, _, _)
DecodeIntLoop(alphabetLookup, string, i, result) ==
  IF i < Len(string)
  THEN LET index == Get(alphabetLookup, At(string, i))
       IN IF index = Undefined THEN Throw("SyntaxError", i)
          ELSE DecodeIntLoop(alphabetLookup, string, i + 1,
                             NumberMulAdd(result, BASE, index))
  ELSE Ok(result)

\* decodeInt skipping a sign marker that no character follows.
decodeIntSkippingBareSign(b64, string) ==
  LET alphabetLookup == b64.alphabetLookup
      length     == Len(string)
      isNegative == length > 0 /\ At(string, 0) = NEGATIVE_CHAR
      loop       == DecodeIntLoop(alphabetLookup, string,
                                  IF isNegative THEN 1 ELSE 0, <<>>)
  IN IF loop.kind # "ok" THEN loop
     ELSE LET result == [neg |-> FALSE, mag |-> loop.val]
          IN Ok(IF isNegative /\ NumLess([neg |-> FALSE, mag |-> <<>>], result)
                THEN Negate(result) ELSE result)

decodeInt(b64, string) ==
  LET alphabetLookup == b64.alphabetLookup
      length     == Len(string)
      isNegative == length > 0 /\ At(string, 0) = NEGATIVE_CHAR
      loop       == DecodeIntLoop(alphabetLookup, string,
                                  IF isNegative /\ length > 1 THEN 1 ELSE 0, <<>>)
  IN IF loop.kind # "ok" THEN loop
     ELSE LET result == [neg |-> FALSE, mag |-> loop.val]
          IN Ok(IF isNegative /\ NumLess([neg |-> FALSE, mag |-> <<>>], result)
                THEN Negate(result) ELSE result)

\* The while loop of encodeBigInt.
RECURSIVE EncodeBigIntLoop(_, _, _)
EncodeBigIntLoop(alphabet, bigInt, result) ==
  IF bigInt # <<>>
  THEN LET dm == DivMod(bigInt, 64)
       IN EncodeBigIntLoop(alphabet, dm.quot, <<At(alphabet, dm.rem)>> \o result)
  ELSE result

encodeBigInt(b64, value) ==
  LET alphabet == b64.alphabet
  IN IF value.mag = <<>> THEN Ok(<<At(alphabet, 0)>>)
     ELSE LET result == EncodeBigIntLoop(alphabet, value.mag, <<>>)
          IN Ok(IF value.neg THEN <<NEGATIVE_CHAR>> \o result ELSE result)

\* The for loop of decodeBigInt.
RECURSIVE DecodeBigIntLoop(_, _, _, _)
DecodeBigIntLoop(alphabetLookup, string, i, result) ==
  IF i < Len(string)
  THEN LET index == Get(alphabetLookup, At(string, i))
       IN IF index = Undefined THEN Throw("SyntaxError", i)
          ELSE DecodeBigIntLoop(alphabetLookup, string, i + 1, MulAdd(result, 64, index))
  ELSE Ok(result)

decodeBigInt(b64, string) ==
  LET alphabetLookup == b64.alphabetLookup
      length     == Len(string)
      isNegative == length > 0 /\ At(string, 0) = NEGATIVE_CHAR
      loop       == DecodeBigIntLoop(alphabetLookup, string,
                                     IF isNegative /\ length > 1 THEN 1 ELSE 0, <<>>)
  IN IF loop.kind # "ok" THEN loop
     ELSE LET result == [neg |-> FALSE, mag |-> loop.val]
          IN Ok(IF isNegative THEN Negate(result) ELSE result)

(***************************************************************************)
(* Inputs                                                                  *)
(***************************************************************************)

\* The longest Uint8Array given to encode and encodeToString.
MaxLen == 5

\* The longest string or Uint8Array given to decodeFromString and decode.
MaxEncLen == 5

\* start and end are omitted or lie in -MaxOff..MaxOff.
MaxOff == 1

\* encodeInt and encodeBigInt are given the integers -MaxSmall..MaxSmall.
MaxSmall == 70

\* They are also given the integers at most MaxDelta away from a power of
\* 64 and from the safe bounds.
MaxDelta == 3

\* The longest numeral given to decodeInt and decodeBigInt.
MaxNumLen == 3

\* The sequences over S of length at most n.
SeqsUpTo(S, n) == UNION {[1..k -> S] : k \in 0..n}

\* 0x00, 0x41, 0xff
ByteValues == {0, 65, 255}

ByteInputs == SeqsUpTo(ByteValues, MaxLen)

\* 'w', '=' and '!'.  'w' is a symbol of every alphabet: its index is 48
\* (110000) in the standard alphabet and 60 (111100) in the custom one.
EncodedValues == {119, PADDING_CHAR, 33}

EncodedInputs == SeqsUpTo(EncodedValues, MaxEncLen)

RangeArgs == {<<>>} \cup {<<n>> : n \in (0 - MaxOff)..MaxOff}

\* '+/0123456789ABCDEFGHIJKLMNOPQRSTUVWXYZabcdefghijklmnopqrstuvwxyz'
CustomAlphabet ==
  << 43, 47, 48, 49, 50, 51, 52, 53, 54, 55, 56, 57,
     65, 66, 67, 68, 69, 70, 71, 72, 73, 74, 75, 76, 77,
     78, 79, 80, 81, 82, 83, 84, 85, 86, 87, 88, 89, 90,
     97, 98, 99, 100, 101, 102, 103, 104, 105, 106, 107, 108, 109,
     110, 111, 112, 113, 114, 115, 116, 117, 118, 119, 120, 121, 122 >>

\* The arguments given to the constructor: none, a permutation of the
\* standard alphabet, a string of 63 characters, a string with a repeated
\* character and a string with a character outside the standard alphabet.
AlphabetArgs ==
  { <<>>,
    <<CustomAlphabet>>,
    <<SubSeq(CustomAlphabet, 1, BASE - 1)>>,
    <<[CustomAlphabet EXCEPT ![BASE] = 43]>>,
    <<[CustomAlphabet EXCEPT ![BASE] = PADDING_CHAR]>> }

\* The magnitude of a natural number below 10^9.
RECURSIVE MagOf(_)
MagOf(n) == IF n = 0 THEN <<>> ELSE Append(MagOf(n \div 1000), n % 1000)

IntOf(n) == IF n < 0 THEN [neg |-> TRUE, mag |-> MagOf(0 - n)]
            ELSE [neg |-> FALSE, mag |-> MagOf(n)]

\* mag + d on magnitudes, for a small integer d with mag + d >= 0.
RECURSIVE MagPlus(_, _)
MagPlus(mag, d) ==
  IF d = 0 THEN mag
  ELSE IF mag = <<>> THEN MagOf(d)
  ELSE LET cur == mag[Len(mag)] + d
       IN StripZeros(Append(MagPlus(SubSeq(mag, 1, Len(mag) - 1),
                                    (cur - (cur % 1000)) \div 1000),
                            cur % 1000))

\* 64^2, 64^3, 64^5, 2^53 - 1, 2^64
Landmarks ==
  { <<4, 96>>, <<262, 144>>, <<1, 73, 741, 824>>,
    <<9, 7, 199, 254, 740, 991>>,
    <<18, 446, 744, 73, 709, 551, 616>> }

IntInputs ==
  {IntOf(n) : n \in (0 - MaxSmall)..MaxSmall}
    \cup {[neg |-> sg, mag |-> MagPlus(m, d)] :
            sg \in BOOLEAN, m \in Landmarks, d \in (0 - MaxDelta)..MaxDelta}

\* The integers among them that a Number holds: every integer up to 2^53,
\* the even ones up to 2^54, and 2^64.
NumberInputs ==
  { v \in IntInputs :
      \/ ~MagLess(<<9, 7, 199, 254, 740, 992>>, v.mag)
      \/ ~MagLess(<<18, 14, 398, 509, 481, 984>>, v.mag) /\ v.mag[Len(v.mag)] % 2 = 0
      \/ v.mag = <<18, 446, 744, 73, 709, 551, 616>> }

\* '-', 'A', 'B', '/' and '!'
NumeralValues == {NEGATIVE_CHAR, 65, 66, 47, 33}

NumeralInputs == SeqsUpTo(NumeralValues, MaxNumLen)

\* The candidates given to isAlphabet differ from an alphabet at one of
\* the first or the last MaxPos positions.
MaxPos == 3

\* The longest string given to isBase64String.
MaxStrLen == 8

\* s with the characters of the positions i and j exchanged.
Swap(s, i, j) == [s EXCEPT ![i] = s[j], ![j] = s[i]]

Reverse(s) == [i \in 1..Len(s) |-> s[Len(s) + 1 - i]]

EditPositions == (1..MaxPos) \cup ((BASE + 1 - MaxPos)..BASE)

\* The permutations of the standard alphabet given to isAlphabet.
AlphabetPermutations ==
  {ALPHABET, CustomAlphabet, Reverse(ALPHABET)}
    \cup {Swap(p, i, j) : p \in {ALPHABET, CustomAlphabet},
                          i \in EditPositions, j \in EditPositions}

\* '=', '-', '!', a code unit above 0xff whose low byte is 'A', 'A', '/'
ReplacementValues == {PADDING_CHAR, NEGATIVE_CHAR, 33, 321, 65, 47}

\* The strings given to isAlphabet: permutations, permutations with one
\* character replaced, and strings of other lengths.
AlphabetCandidates ==
  AlphabetPermutations
    \cup {[p EXCEPT ![i] = c] : p \in {ALPHABET, CustomAlphabet},
                                i \in EditPositions, c \in ReplacementValues}
    \cup {SubSeq(ALPHABET, 1, n) : n \in {0, 1, BASE - 1}}
    \cup {Append(p, c) : p \in {ALPHABET, CustomAlphabet}, c \in {65, 33}}
    \cup {ALPHABET \o ALPHABET}

StringInputs == SeqsUpTo(EncodedValues, MaxStrLen)

\* 2^29 and 2^30, where the length encode computes wraps, and 715827883,
\* where the length decode computes does.
LengthLandmarks == {536870912, 715827883, 1073741824}

\* The lengths of the inputs of which the model holds the length alone.
LargeLengths ==
  {n + d : n \in LengthLandmarks, d \in (0 - MaxDelta)..MaxDelta}

(***************************************************************************)
(* The state machine: a program constructs instances and calls their       *)
(* methods, one call at a time.  call is the call that has been made and   *)
(* result its outcome, until the program takes the outcome and is ready to *)
(* make its next call.  The methods write no state: the instances are the  *)
(* only state a call leaves behind.                                        *)
(***************************************************************************)

VARIABLES instances, call, result

vars == <<instances, call, result>>

Call(op, alphabet, input, start, end) ==
  [op |-> op, inst |-> alphabet, input |-> input, start |-> start, end |-> end]

\* The instance a call is made on.
Instance(alphabet) == CHOOSE b64 \in instances : b64.alphabet = alphabet

\* No call is under way.
Idle == Call("idle", ALPHABET, <<>>, <<>>, <<>>)

\* The state once the module is loaded: the default instance exists.
Init ==
  /\ instances = {base64}
  /\ call = Idle
  /\ result = Ok(<<>>)

\* new Base64(alphabet)
Construct ==
  /\ call = Idle
  /\ \E arg \in AlphabetArgs :
       LET alphabet == toAlphabet(arg)
       IN /\ call' = Call("construct", ALPHABET, arg, <<>>, <<>>)
          /\ result' = alphabet
          /\ instances' = IF alphabet.kind = "ok"
                          THEN instances \cup {Base64(alphabet.val)}
                          ELSE instances

\* The numerals given to decodeInt: the short ones, and the numerals of the
\* integers of at most 16 decimal digits.
DecodeIntInputs(b64) ==
  NumeralInputs
    \cup {encodeBigInt(b64, v).val : v \in {w \in IntInputs : Len(w.mag) <= 6}}

\* The numerals given to decodeBigInt.
DecodeBigIntInputs(b64) ==
  NumeralInputs \cup {encodeBigInt(b64, v).val : v \in IntInputs}

EncodeInt ==
  /\ call = Idle
  /\ \E b64 \in instances, value \in NumberInputs :
       /\ call' = Call("encodeInt", b64.alphabet, value, <<>>, <<>>)
       /\ result' = encodeInt(b64, value)
  /\ UNCHANGED instances

DecodeInt ==
  /\ call = Idle
  /\ \E b64 \in instances :
       \E string \in DecodeIntInputs(b64) :
         /\ call' = Call("decodeInt", b64.alphabet, string, <<>>, <<>>)
         /\ result' = decodeInt(b64, string)
  /\ UNCHANGED instances

EncodeBigInt ==
  /\ call = Idle
  /\ \E b64 \in instances, value \in IntInputs :
       /\ call' = Call("encodeBigInt", b64.alphabet, value, <<>>, <<>>)
       /\ result' = encodeBigInt(b64, value)
  /\ UNCHANGED instances

DecodeBigInt ==
  /\ call = Idle
  /\ \E b64 \in instances :
       \E string \in DecodeBigIntInputs(b64) :
         /\ call' = Call("decodeBigInt", b64.alphabet, string, <<>>, <<>>)
         /\ result' = decodeBigInt(b64, string)
  /\ UNCHANGED instances

EncodeToString ==
  /\ call = Idle
  /\ \E b64 \in instances, input \in ByteInputs, start \in RangeArgs, end \in RangeArgs :
       /\ call' = Call("encodeToString", b64.alphabet, input, start, end)
       /\ result' = encodeToString(b64, input, start, end)
  /\ UNCHANGED instances

DecodeFromString ==
  /\ call = Idle
  /\ \E b64 \in instances, input \in EncodedInputs, start \in RangeArgs, end \in RangeArgs :
       /\ call' = Call("decodeFromString", b64.alphabet, input, start, end)
       /\ result' = decodeFromString(b64, input, start, end)
  /\ UNCHANGED instances

Encode ==
  /\ call = Idle
  /\ \E b64 \in instances, input \in ByteInputs, start \in RangeArgs, end \in RangeArgs :
       /\ call' = Call("encode", b64.alphabet, input, start, end)
       /\ result' = encode(b64, input, start, end)
  /\ UNCHANGED instances

Decode ==
  /\ call = Idle
  /\ \E b64 \in instances, input \in EncodedInputs, start \in RangeArgs, end \in RangeArgs :
       /\ call' = Call("decode", b64.alphabet, input, start, end)
       /\ result' = decode(b64, input, start, end)
  /\ UNCHANGED instances

\* Base64.isAlphabet(value)
IsAlphabet ==
  /\ call = Idle
  /\ \E value \in AlphabetCandidates :
       /\ call' = Call("isAlphabet", ALPHABET, value, <<>>, <<>>)
       /\ result' = Ok(isAlphabet(value))
  /\ UNCHANGED instances

\* Base64.isBase64String(value)
IsBase64String ==
  /\ call = Idle
  /\ \E value \in StringInputs :
       /\ call' = Call("isBase64String", ALPHABET, value, <<>>, <<>>)
       /\ result' = Ok(isBase64String(value))
  /\ UNCHANGED instances

\* encode of an input of which the model holds the length alone, taken
\* where encodeOfLength is its outcome.
EncodeLarge ==
  /\ call = Idle
  /\ \E b64 \in instances, length \in LargeLengths,
        start \in RangeArgs, end \in RangeArgs :
       /\ EncodeResultLength(SelectedLength(length, start, end)) <= 0
       /\ call' = Call("encodeLarge", b64.alphabet, [length |-> length],
                       start, end)
       /\ result' = encodeOfLength(length, start, end)
  /\ UNCHANGED instances

\* decode of an input of which the model holds the length and the lowest
\* position of a byte that is neither a symbol nor a padding marker
\* (Undefined when it has none), taken where decodeOfLength is its outcome.
DecodeLarge ==
  /\ call = Idle
  /\ \E b64 \in instances, length \in LargeLengths,
        invalid \in {Undefined, 0, 2}, start \in RangeArgs, end \in RangeArgs :
       /\ DecodeResultLength(SelectedLength(length, start, end)) < 0
       /\ call' = Call("decodeLarge", b64.alphabet,
                       [length |-> length, invalid |-> invalid], start, end)
       /\ result' = decodeOfLength(length, start, end)
  /\ UNCHANGED instances

\* The program takes the outcome of its call.
Return ==
  /\ call # Idle
  /\ call' = Idle
  /\ result' = Ok(<<>>)
  /\ UNCHANGED instances

NextNumeral ==
  Construct \/ EncodeInt \/ DecodeInt \/ EncodeBigInt \/ DecodeBigInt \/ Return

NextEncode == Construct \/ EncodeToString \/ Encode \/ Return

NextDecode == Construct \/ DecodeFromString \/ Decode \/ Return

NextBuffer ==
  Construct \/ EncodeToString \/ DecodeFromString \/ Encode \/ Decode \/ Return

NextAlphabet == Construct \/ IsAlphabet \/ Return

NextValidate == Construct \/ IsBase64String \/ DecodeFromString \/ Return

NextLarge == Construct \/ EncodeLarge \/ DecodeLarge \/ Return

Next ==
  \/ Construct \/ IsAlphabet \/ IsBase64String
  \/ EncodeLarge \/ DecodeLarge
  \/ EncodeInt \/ DecodeInt \/ EncodeBigInt \/ DecodeBigInt
  \/ EncodeToString \/ DecodeFromString \/ Encode \/ Decode
  \/ Return

\* Every operation.
Spec == Init /\ [][Next]_vars

\* The numeral codec alone.
SpecNumeral == Init /\ [][NextNumeral]_vars

\* The encoding half of the buffer codec alone.
SpecEncode == Init /\ [][NextEncode]_vars

\* The decoding half of the buffer codec alone.
SpecDecode == Init /\ [][NextDecode]_vars

\* The buffer codec alone.
SpecBuffer == Init /\ [][NextBuffer]_vars

\* The buffer codec on the inputs of which the length alone is held.
SpecLarge == Init /\ [][NextLarge]_vars

\* Construction and the validation of alphabets.
SpecAlphabet == Init /\ [][NextAlphabet]_vars

\* The validation of encoded strings and their decoding.
SpecValidate == Init /\ [][NextValidate]_vars

(***************************************************************************)
(* Definitions the properties are stated with.  They are written without   *)
(* the code's arithmetic: a slice by the positions it selects, the RFC     *)
(* 4648 encoding by the bits of the input, the safe bound by doubling.     *)
(***************************************************************************)

\* The instance the call of the current state is made on.
This == Instance(call.inst)

\* The positions of a sequence of length len that slice(start, end) keeps.
SlicePositions(len, start, end) ==
  { i \in 0..(len - 1) :
      /\ \/ start = <<>>
         \/ start[1] >= 0 /\ i >= start[1]
         \/ start[1] < 0 /\ i >= len + start[1]
      /\ \/ end = <<>>
         \/ end[1] >= 0 /\ i < end[1]
         \/ end[1] < 0 /\ i < len + end[1] }

Least(S) == CHOOSE i \in S : \A j \in S : i <= j

Slice(s, start, end) ==
  LET kept == SlicePositions(Len(s), start, end)
  IN IF kept = {} THEN <<>>
     ELSE [k \in 1..Cardinality(kept) |-> At(s, Least(kept) + k - 1)]

\* The selected range of the call of the current state.
Selected == Slice(call.input, call.start, call.end)

Whole == call.start = <<>> /\ call.end = <<>>

IsTransform == call.op \in {"encode", "encodeToString", "decode", "decodeFromString"}

\* Bit pos of a byte sequence, the most significant bit of the first byte
\* being bit 0; the bits past the end are 0.
BitAt(bytes, pos) ==
  IF pos < 8 * Len(bytes)
  THEN (At(bytes, pos \div 8) \div (2 ^ (7 - (pos % 8)))) % 2
  ELSE 0

\* The k-th 6-bit field of a byte sequence.
Sextet(bytes, k) ==
  BitAt(bytes, 6 * k) * 32 + BitAt(bytes, 6 * k + 1) * 16 + BitAt(bytes, 6 * k + 2) * 8
    + BitAt(bytes, 6 * k + 3) * 4 + BitAt(bytes, 6 * k + 4) * 2 + BitAt(bytes, 6 * k + 5)

\* The RFC 4648 encoding of a byte sequence over an alphabet.
Rfc4648(alphabet, bytes) ==
  LET symbols == (8 * Len(bytes) + 5) \div 6
      total   == 4 * ((Len(bytes) + 2) \div 3)
  IN [k \in 1..total |->
        IF k <= symbols THEN At(alphabet, Sextet(bytes, k - 1)) ELSE PADDING_CHAR]

\* 2^k as a magnitude.
RECURSIVE Pow2(_)
Pow2(k) == IF k < 6 THEN <<2 ^ k>> ELSE MulAdd(Pow2(k - 6), 64, 0)

\* 2^53 - 1
SafeBound == MagPlus(Pow2(53), 0 - 1)

InSafeRange(value) == ~MagLess(SafeBound, value.mag)

Zero == [neg |-> FALSE, mag |-> <<>>]

\* s is n symbols of the alphabet followed by p padding markers.
SymbolsThenPadding(alphabet, s, p) ==
  /\ p <= Len(s)
  /\ \A i \in 1..Len(s) :
       IF i <= Len(s) - p
       THEN \E j \in 1..BASE : alphabet[j] = s[i]
       ELSE s[i] = PADDING_CHAR

(***************************************************************************)
(* Properties                                                              *)
(***************************************************************************)

\* C1: decoding what encode returned gives back the bytes encoded, and
\* decodeFromString gives back the bytes encodeToString encoded, on every
\* instance, for every length of the input.  Of an input of which the length
\* alone is held, decoding what encode returned gives back as many bytes as
\* were encoded.
C1_BufferRoundTrip ==
  /\ call.op = "encode" =>
       /\ result.kind = "ok"
       /\ decode(This, result.val, <<>>, <<>>) = Ok(Selected)
  /\ call.op = "encodeToString" =>
       /\ result.kind = "ok"
       /\ decodeFromString(This, result.val, <<>>, <<>>) = Ok(Selected)
  /\ call.op = "encodeLarge" =>
       /\ result.kind = "ok"
       /\ decode(This, result.val, <<>>, <<>>).kind = "ok"
       /\ Len(decode(This, result.val, <<>>, <<>>).val)
            = SelectedLength(call.input.length, call.start, call.end)

\* C2 as claimed: re-encoding what decodeFromString returned for symbols of
\* the alphabet followed by 0, 1 or 2 padding markers, of a length that is a
\* multiple of 4, gives the string back.
C2_StringRoundTrip ==
  (/\ call.op = "decodeFromString"
   /\ Whole
   /\ Len(call.input) % 4 = 0
   /\ \E p \in 0..2 : SymbolsThenPadding(This.alphabet, call.input, p))
  => /\ result.kind = "ok"
     /\ encodeToString(This, result.val, <<>>, <<>>) = Ok(call.input)

\* The bits of the last symbol of s before p padding markers that no
\* decoded byte takes (4 bits before 2 markers, 2 bits before 1) are zero.
UnusedBitsZero(b64, s, p) ==
  \/ p = 0
  \/ p < Len(s) /\ Get(b64.alphabetLookup, s[Len(s) - p]) % (2 ^ (2 * p)) = 0

\* C2 as amended: the string is given back when, besides, the bits of its
\* last symbol that no decoded byte takes are zero.
C2_StringRoundTripZeroBits ==
  (/\ call.op = "decodeFromString"
   /\ Whole
   /\ Len(call.input) % 4 = 0
   /\ \E p \in 0..2 :
        /\ SymbolsThenPadding(This.alphabet, call.input, p)
        /\ UnusedBitsZero(This, call.input, p))
  => /\ result.kind = "ok"
     /\ encodeToString(This, result.val, <<>>, <<>>) = Ok(call.input)

\* decodeFromString has decoded 'ww==' on the default instance.
C2_Witness ==
  /\ call.op = "decodeFromString"
  /\ call.inst = ALPHABET
  /\ Whole
  /\ call.input = <<119, 119, PADDING_CHAR, PADDING_CHAR>>
  /\ result = Ok(<<195>>)

\* C3: decodeInt gives back every integer of the safe range that encodeInt
\* encoded, and decodeBigInt every integer that encodeBigInt encoded.
C3_NumeralRoundTrip ==
  /\ (call.op = "encodeInt" /\ InSafeRange(call.input)) =>
       /\ result.kind = "ok"
       /\ decodeInt(This, result.val) = Ok(call.input)
  /\ call.op = "encodeBigInt" =>
       /\ result.kind = "ok"
       /\ decodeBigInt(This, result.val) = Ok(call.input)

\* encodeInt has encoded the minimum safe integer: '-f////////'.
C3_Witness ==
  /\ call.op = "encodeInt"
  /\ call.inst = ALPHABET
  /\ call.input = [neg |-> TRUE, mag |-> SafeBound]
  /\ result = Ok(<<45, 102, 47, 47, 47, 47, 47, 47, 47, 47>>)

\* C4: encodeToString returns the RFC 4648 encoding of the selected bytes
\* over the alphabet of the instance.
C4_MatchesRfc4648 ==
  call.op = "encodeToString" => result = Ok(Rfc4648(This.alphabet, Selected))

\* encodeToString has encoded a group of 3 bytes and a remainder of 2.
C4_Witness ==
  /\ call.op = "encodeToString"
  /\ Whole
  /\ Len(call.input) = 5
  /\ result.kind = "ok"
  /\ Len(result.val) = 8
  /\ result.val[8] = PADDING_CHAR
  /\ result.val[7] # PADDING_CHAR

\* C5 as claimed: what encode returns has a length that is a multiple of 4,
\* a remainder of 1 byte giving 2 symbols and 2 padding markers and a
\* remainder of 2 bytes 3 symbols and 1 padding marker.
C5_EncodeLengthMultipleOf4 ==
  call.op = "encode" =>
    /\ result.kind = "ok"
    /\ Len(result.val) % 4 = 0
    /\ Len(Selected) % 3 = 1 =>
         SymbolsThenPadding(This.alphabet, SubSeq(result.val, Len(result.val) - 3, Len(result.val)), 2)
    /\ Len(Selected) % 3 = 2 =>
         SymbolsThenPadding(This.alphabet, SubSeq(result.val, Len(result.val) - 3, Len(result.val)), 1)

\* C6 as claimed: decode returns 3 * (L / 4) - p bytes for a selected range
\* of L bytes, L a multiple of 4, that is symbols of the alphabet followed
\* by p padding markers.
C6_DecodeAcceptsPadding ==
  \A p \in 0..2 :
    (/\ call.op = "decode"
     /\ Len(Selected) % 4 = 0
     /\ SymbolsThenPadding(This.alphabet, Selected, p)
     /\ ~SymbolsThenPadding(This.alphabet, Selected, p + 1))
    => /\ result.kind = "ok"
       /\ Len(result.val) = 3 * (Len(Selected) \div 4) - p

\* Two outcomes are the same result or the same kind of failure.
SameOutcome(r1, r2) == r1.kind = r2.kind /\ r1.val = r2.val

\* C7: each transform gives, for an input and a start and an end, the
\* outcome it gives for the whole of the slice of the input from start to
\* end.
C7_SliceEquivalent ==
  /\ call.op = "encode" =>
       SameOutcome(result, encode(This, Selected, <<>>, <<>>))
  /\ call.op = "encodeToString" =>
       SameOutcome(result, encodeToString(This, Selected, <<>>, <<>>))
  /\ call.op = "decode" =>
       SameOutcome(result, decode(This, Selected, <<>>, <<>>))
  /\ call.op = "decodeFromString" =>
       SameOutcome(result, decodeFromString(This, Selected, <<>>, <<>>))

\* decodeFromString has decoded the range of 'ww==!' that ends before its
\* last character.
C7_Witness ==
  /\ call.op = "decodeFromString"
  /\ call.input = <<119, 119, PADDING_CHAR, PADDING_CHAR, 33>>
  /\ call.start = <<>>
  /\ call.end = <<0 - 1>>
  /\ result = Ok(<<195>>)

\* The positions of the input, inside the selected range, of the symbols
\* that are not in the alphabet and are not one of the up to two trailing
\* padding markers of a range whose length is a multiple of 4.
InvalidPositions ==
  LET kept == SlicePositions(Len(call.input), call.start, call.end)
      last == Least(kept) + Cardinality(kept) - 1
      IsSymbol(c) == \E j \in 1..BASE : This.alphabet[j] = c
      IsPadding(i) ==
        /\ Cardinality(kept) % 4 = 0
        /\ At(call.input, i) = PADDING_CHAR
        /\ \/ i = last
           \/ i = last - 1 /\ At(call.input, last) = PADDING_CHAR
  IN {i \in kept : ~IsSymbol(At(call.input, i)) /\ ~IsPadding(i)}

\* C8: decode and decodeFromString throw a SyntaxError that reports the
\* lowest position of an invalid symbol of the selected range, and return
\* nothing, whenever the range holds one.
C8_FailFast ==
  /\ (call.op \in {"decode", "decodeFromString"} /\ InvalidPositions # {}) =>
       /\ result.kind = "SyntaxError"
       /\ result.index = Least(InvalidPositions)
       /\ result.val = <<>>
  /\ (/\ call.op = "decodeLarge"
      /\ call.input.invalid # Undefined
      /\ call.input.invalid >= RangeIndex(call.start, call.input.length, 0)
      /\ call.input.invalid
           < RangeIndex(call.end, call.input.length, call.input.length)) =>
       result = Throw("SyntaxError", call.input.invalid)

\* C9: encodeInt throws a RangeError exactly for the integers outside the
\* safe range and encodes the others; encodeBigInt throws none.
C9_RangeErrorOutsideSafeRange ==
  /\ call.op = "encodeInt" =>
       /\ result.kind = "RangeError" <=> ~InSafeRange(call.input)
       /\ result.kind = "ok" <=> InSafeRange(call.input)
  /\ call.op = "encodeBigInt" => result.kind = "ok"

\* encodeInt has refused -2^53.
C9_Witness ==
  /\ call.op = "encodeInt"
  /\ call.input = [neg |-> TRUE, mag |-> Pow2(53)]
  /\ result.kind = "RangeError"

IsBareSign ==
  /\ call.op \in {"decodeInt", "decodeBigInt"}
  /\ call.input = <<NEGATIVE_CHAR>>

\* C10 as claimed: decodeInt and decodeBigInt return 0 for the numeral that
\* is the sign marker alone.
C10_BareSignIsZero == IsBareSign => result = Ok(Zero)

\* C10 as amended: decodeInt and decodeBigInt throw a SyntaxError that
\* reports position 0 for the numeral that is the sign marker alone.
C10_BareSignIsInvalid == IsBareSign => result = Throw("SyntaxError", 0)

\* decodeInt has refused '-' on the custom instance.
C10_Witness ==
  /\ call.op = "decodeInt"
  /\ call.inst = CustomAlphabet
  /\ call.input = <<NEGATIVE_CHAR>>
  /\ result.kind = "SyntaxError"

\* s holds each character of the standard alphabet exactly once.
IsPermutationOfStandard(s) ==
  /\ Len(s) = BASE
  /\ {s[i] : i \in 1..Len(s)} = {ALPHABET[i] : i \in 1..BASE}

HasRepeat(s) == \E i \in 1..Len(s), j \in 1..Len(s) : i < j /\ s[i] = s[j]

\* C11: isAlphabet returns true for a string exactly when the constructor
\* accepts that string, and false exactly when the constructor throws; it
\* returns false for a string whose length is not 64 and for a string with a
\* repeated character, and true for a permutation of the standard alphabet.
C11_IsAlphabetAsConstruction ==
  /\ call.op = "isAlphabet" =>
       /\ result.val = (toAlphabet(<<call.input>>).kind = "ok")
       /\ Len(call.input) # BASE => result.val = FALSE
       /\ HasRepeat(call.input) => result.val = FALSE
       /\ IsPermutationOfStandard(call.input) => result.val = TRUE
  /\ (call.op = "construct" /\ call.input # <<>>) =>
       (result.kind = "ok") = isAlphabet(call.input[1])

\* isAlphabet has refused the standard alphabet with its last character
\* replaced by its first.
C11_Witness ==
  /\ call.op = "isAlphabet"
  /\ call.input = [ALPHABET EXCEPT ![BASE] = 65]
  /\ result = Ok(FALSE)

\* C12: isBase64String returns true for the strings that are symbols of the
\* alphabet followed by 0, 1 or 2 padding markers and whose length is a
\* multiple of 4, the empty string among them, and false for every other
\* string.
C12_IsBase64StringShape ==
  call.op = "isBase64String" =>
    /\ result.kind = "ok"
    /\ result.val = (/\ Len(call.input) % 4 = 0
                     /\ \E p \in 0..2 : SymbolsThenPadding(ALPHABET, call.input, p))

\* isBase64String has accepted 'wwwwww=='.
C12_Witness ==
  /\ call.op = "isBase64String"
  /\ call.input = <<119, 119, 119, 119, 119, 119, PADDING_CHAR, PADDING_CHAR>>
  /\ result = Ok(TRUE)

\* The index of a symbol in the standard alphabet.
StandardIndex(c) == CHOOSE i \in 0..(BASE - 1) : At(ALPHABET, i) = c

\* out with each symbol of standard index i replaced by the character of
\* index i of alphabet; padding and sign markers stay.
Relabel(alphabet, out) ==
  [k \in 1..Len(out) |->
     IF out[k] \in {PADDING_CHAR, NEGATIVE_CHAR} THEN out[k]
     ELSE At(alphabet, StandardIndex(out[k]))]

\* What the call of the current state returns on a default instance that
\* nothing has used.
OnDefault ==
  CASE call.op = "encodeInt"      -> encodeInt(base64, call.input)
    [] call.op = "encodeBigInt"   -> encodeBigInt(base64, call.input)
    [] call.op = "encodeToString" ->
         encodeToString(base64, call.input, call.start, call.end)
    [] call.op = "encode"         ->
         encode(base64, call.input, call.start, call.end)

\* C13: whatever was constructed and called before, an encoder of an
\* instance returns what the default instance returns for the same input
\* with each symbol replaced by the character of the same index of the
\* instance's alphabet, padding and sign markers unchanged; the default
\* instance stays as it was when the module was loaded.
C13_CustomAlphabetRelabels ==
  /\ Instance(ALPHABET) = base64
  /\ call.op \in {"encodeInt", "encodeBigInt", "encodeToString", "encode"} =>
       IF OnDefault.kind = "ok"
       THEN result = Ok(Relabel(call.inst, OnDefault.val))
       ELSE result = OnDefault

\* encodeToString has encoded the byte 0xff on the custom instance: 'zk=='
\* for '/w=='.
C13_Witness ==
  /\ call.op = "encodeToString"
  /\ call.inst = CustomAlphabet
  /\ Whole
  /\ call.input = <<255>>
  /\ result = Ok(<<122, 107, PADDING_CHAR, PADDING_CHAR>>)

\* decodeFromString of the whole of s returns on the instance b64.
Decodes(b64, s) == decodeFromString(b64, s, <<>>, <<>>).kind = "ok"

\* C14: a string isBase64String accepts is decoded whole by decodeFromString
\* without an error on every instance, and a string whose length is a
\* multiple of 4 and which decodeFromString decodes whole without an error
\* is accepted by isBase64String.
C14_PreValidation ==
  /\ call.op = "isBase64String" =>
       /\ result.val = TRUE => \A b64 \in instances : Decodes(b64, call.input)
       /\ (/\ Len(call.input) % 4 = 0
           /\ \E b64 \in instances : Decodes(b64, call.input))
          => result.val = TRUE
  /\ (call.op = "decodeFromString" /\ Whole) =>
       /\ isBase64String(call.input) => result.kind = "ok"
       /\ (Len(call.input) % 4 = 0 /\ result.kind = "ok")
          => isBase64String(call.input)

\* isBase64String has accepted 'wwwwwww=' while a custom instance exists.
C14_Witness ==
  /\ call.op = "isBase64String"
  /\ call.input = <<119, 119, 119, 119, 119, 119, 119, PADDING_CHAR>>
  /\ result = Ok(TRUE)
  /\ \E b64 \in instances : b64.alphabet = CustomAlphabet

====
